---- MODULE Spec2Model ----
(***************************************************************************)
(* EnumFlags<Enum> (include/enum_flags/enum_flags.h): a value type         *)
(* wrapping one unsigned integer flags_ whose bits are the flags of a      *)
(* scoped enumeration.  The model keeps two EnumFlags<Opt> objects (the    *)
(* flags1 and flags2 of the SwapFlags test) and applies the member         *)
(* functions to them.  An Enum value is represented by its underlying      *)
(* value (std::to_underlying), an EnumFlags temporary by its raw value.    *)
(***************************************************************************)
EXTENDS Integers, Sequences, FiniteSets

\* Bit-width of RawType in the model (unsigned int in the tests).
Width == 3

\* Longest initializer list / range handed to the collection constructors.
MaxLen == 2

\* The two objects.
Obj == {1, 2}

Other(r) == 3 - r

\* Values of RawType.
Raw == 0 .. (2^Width - 1)

-----------------------------------------------------------------------------
(* Built-in integer operators on RawType, bit by bit.                      *)

RECURSIVE AndBits(_, _, _)
AndBits(a, b, n) ==
    IF n = 0 THEN 0
    ELSE (a % 2) * (b % 2) + 2 * AndBits(a \div 2, b \div 2, n - 1)

\* a & b
BitAnd(a, b) == AndBits(a, b, Width)

RECURSIVE OrBits(_, _, _)
OrBits(a, b, n) ==
    IF n = 0 THEN 0
    ELSE (IF a % 2 = 1 \/ b % 2 = 1 THEN 1 ELSE 0)
         + 2 * OrBits(a \div 2, b \div 2, n - 1)

\* a | b
BitOr(a, b) == OrBits(a, b, Width)

\* ~a, converted back to RawType
BitNot(a) == (2^Width - 1) - a

\* a << shift, converted back to RawType
ShiftLeft(a, shift) == (a * 2^shift) % 2^Width

-----------------------------------------------------------------------------
(* The member functions, on raw values.                                    *)

CreateFlagOffByOne(shift) == ShiftLeft(2, shift)

\* static consteval RawType CreateFlag(const std::size_t shift)
CreateFlag(shift) == ShiftLeft(1, shift)

\* enum class Opt : unsigned int { A = CreateFlag(0), B = CreateFlag(1), ... },
\* one enumerator for each bit of RawType in the model.
Opt == {CreateFlag(k) : k \in 0 .. (Width - 1)}

\* Every value an Opt object can carry: any value of the underlying type.
EnumVals == Raw

\* EnumFlags(const RawType flags = 0)
EnumFlagsRaw(flags) == flags

\* EnumFlags(const Enum flag) : flags_ {std::to_underlying(flag)}
EnumFlagsEnum(flag) == flag

\* operator RawType()
ToRaw(f) == f

ClearKeeps(f) == f

\* Clear(): flags_ = 0
Clear(f) == 0

RemoveXor(f, flags) == BitAnd(BitOr(f, ToRaw(flags)), BitNot(BitAnd(f, ToRaw(flags))))

\* Remove(flags): flags_ &= ~static_cast<RawType>(flags)
Remove(f, flags) == BitAnd(f, BitNot(ToRaw(flags)))

AddOverwrites(f, flags) == ToRaw(flags)

\* Add(flags): flags_ |= static_cast<RawType>(flags)
Add(f, flags) == BitOr(f, ToRaw(flags))

\* Has(flag): (flags_ & std::to_underlying(flag)) != 0
Has(f, flag) == BitAnd(f, flag) # 0

HasAllAsAny(f, flags) == BitAnd(f, ToRaw(flags)) # 0

\* HasAll(flags): (flags_ & raw(flags)) == raw(flags)
HasAll(f, flags) == BitAnd(f, ToRaw(flags)) = ToRaw(flags)

\* HasAny(flags): (flags_ & raw(flags)) != 0
HasAny(f, flags) == BitAnd(f, ToRaw(flags)) # 0

\* HasAny(): flags_ != 0
HasAnySet(f) == f # 0

\* operator&(const Enum flag): Has(flag)
AndEnum(f, flag) == Has(f, flag)

\* operator&(const EnumFlags flags): HasAll(flags)
AndFlags(f, flags) == HasAll(f, flags)

ResetIntersects(f, flags) == BitAnd(f, ToRaw(flags))

\* operator&=(flags): flags_ = flags
ResetAssign(f, flags) == ToRaw(flags)

UnionOnlyArg(f, flags) == Add(EnumFlagsRaw(0), flags)

\* operator|(flags): EnumFlags {*this}.Add(flags)
Union(f, flags) == Add(f, flags)

\* operator|=(flags): Add(flags)
UnionAssign(f, flags) == Add(f, flags)

EqualSubset(f, g) == BitAnd(f, g) = g

\* operator==(const EnumFlags&) = default: memberwise on flags_
Equal(f, g) == f = g

\* AddFlags(flags): for_each(flags, [this](flag) { Add(flag); })
RECURSIVE AddFlags(_, _)
AddFlags(f, flags) ==
    IF flags = <<>> THEN f
    ELSE AddFlags(Add(f, EnumFlagsEnum(Head(flags))), Tail(flags))

EnumFlagsListLast(flags) ==
    IF flags = <<>> THEN 0 ELSE EnumFlagsEnum(flags[Len(flags)])

\* EnumFlags(initializer_list<Enum>) / EnumFlags(Flags&&): flags_ {0}; AddFlags(flags)
EnumFlagsList(flags) == AddFlags(0, flags)

SwapCopies(fl, r, s) == [fl EXCEPT ![r] = fl[s]]

\* swap(flags): std::ranges::swap(flags_, flags.flags_)
Swap(fl, r, s) == [fl EXCEPT ![r] = fl[s], ![s] = fl[r]]

-----------------------------------------------------------------------------
(* State: the two objects, and the last call (what was called, on which    *)
(* object, with which argument, what it returned, and the raw values the   *)
(* objects had when it started).                                           *)

VARIABLES flags_, pre, op, rcv, arg, ret

vars == <<flags_, pre, op, rcv, arg, ret>>

\* Return values: a reference to an object, a bool, a value, or nothing.
Ref(r) == [ref |-> r]
Bool(b) == [b |-> b]
Val(x) == [val |-> x]
Void == [void |-> TRUE]

\* Initializer lists and ranges of enumerators, duplicates and any order allowed.
Lists == UNION {[1 .. n -> Opt] : n \in 0 .. MaxLen}

\* What a by-value EnumFlags parameter is initialised from: a copy of one of
\* the objects (which the constructors give any value).
FlagsArgs == {ToRaw(flags_[s]) : s \in Obj}

\* Both objects default-constructed: RawType flags_ {0}.
Init ==
    /\ flags_ = [r \in Obj |-> EnumFlagsRaw(0)]
    /\ pre = [r \in Obj |-> EnumFlagsRaw(0)]
    /\ op = "EnumFlags()"
    /\ rcv = 1
    /\ arg = 0
    /\ ret = Void

\* A member call on object r that sets flags_[r] to f and returns x.
Member(name, r, a, f, x) ==
    /\ flags_' = [flags_ EXCEPT ![r] = f]
    /\ pre' = flags_
    /\ op' = name
    /\ rcv' = r
    /\ arg' = a
    /\ ret' = x

\* Object r is constructed anew with raw value f; a new object has no earlier
\* value, so pre records the objects as the constructor leaves them.
Construct(name, r, a, f) ==
    /\ flags_' = [flags_ EXCEPT ![r] = f]
    /\ pre' = flags_'
    /\ op' = name
    /\ rcv' = r
    /\ arg' = a
    /\ ret' = Void

CallCreateFlag(shift) ==
    /\ shift < Width
    /\ UNCHANGED flags_
    /\ pre' = flags_
    /\ op' = "CreateFlag"
    /\ rcv' = 1
    /\ arg' = shift
    /\ ret' = Val(CreateFlag(shift))

CallEnumFlags(r) == Construct("EnumFlags()", r, 0, EnumFlagsRaw(0))

CallEnumFlagsRaw(r, x) == Construct("EnumFlags(raw)", r, x, EnumFlagsRaw(x))

CallEnumFlagsEnum(r, v) == Construct("EnumFlags(enum)", r, v, EnumFlagsEnum(v))

CallEnumFlagsList(r, S) == Construct("EnumFlags(list)", r, S, EnumFlagsList(S))

CallClear(r) == Member("Clear", r, 0, Clear(flags_[r]), Ref(r))

CallRemove(r, g) == Member("Remove", r, g, Remove(flags_[r], g), Ref(r))

CallAdd(r, g) == Member("Add", r, g, Add(flags_[r], g), Ref(r))

CallHas(r, v) == Member("Has", r, v, flags_[r], Bool(Has(flags_[r], v)))

CallHasAll(r, g) == Member("HasAll", r, g, flags_[r], Bool(HasAll(flags_[r], g)))

CallHasAny(r, g) == Member("HasAny", r, g, flags_[r], Bool(HasAny(flags_[r], g)))

CallHasAnySet(r) == Member("HasAny()", r, 0, flags_[r], Bool(HasAnySet(flags_[r])))

CallAndEnum(r, v) == Member("&enum", r, v, flags_[r], Bool(AndEnum(flags_[r], v)))

CallAndFlags(r, g) == Member("&flags", r, g, flags_[r], Bool(AndFlags(flags_[r], g)))

CallResetAssign(r, g) == Member("&=", r, g, ResetAssign(flags_[r], g), Ref(r))

\* const auto new_flags {flags | g}: the returned value initialises the other
\* object; the receiver is const.
CallUnion(r, g) ==
    /\ flags_' = [flags_ EXCEPT ![Other(r)] = Union(flags_[r], g)]
    /\ pre' = flags_
    /\ op' = "|"
    /\ rcv' = r
    /\ arg' = g
    /\ ret' = Val(Union(flags_[r], g))

CallUnionAssign(r, g) == Member("|=", r, g, UnionAssign(flags_[r], g), Ref(r))

CallToRaw(r) == Member("RawType", r, 0, flags_[r], Val(ToRaw(flags_[r])))

\* r.swap(s)
CallSwap(r, s) ==
    /\ flags_' = Swap(flags_, r, s)
    /\ pre' = flags_
    /\ op' = "swap"
    /\ rcv' = r
    /\ arg' = s
    /\ ret' = Void

\* swap(lhs, rhs): lhs.swap(rhs)
CallFreeSwap(lhs, rhs) ==
    /\ flags_' = Swap(flags_, lhs, rhs)
    /\ pre' = flags_
    /\ op' = "swap"
    /\ rcv' = lhs
    /\ arg' = rhs
    /\ ret' = Void

CallEqual(r, s) == Member("==", r, s, flags_[r], Bool(Equal(flags_[r], flags_[s])))

\* r != s is rewritten by the compiler to !(r == s)
CallNotEqual(r, s) == Member("!=", r, s, flags_[r], Bool(~Equal(flags_[r], flags_[s])))

Next ==
    \/ \E shift \in 0 .. Width : CallCreateFlag(shift)
    \/ \E r \in Obj : CallEnumFlags(r)
    \/ \E r \in Obj, x \in Raw : CallEnumFlagsRaw(r, x)
    \/ \E r \in Obj, v \in EnumVals : CallEnumFlagsEnum(r, v)
    \/ \E r \in Obj, S \in Lists : CallEnumFlagsList(r, S)
    \/ \E r \in Obj : CallClear(r)
    \/ \E r \in Obj, g \in FlagsArgs : CallRemove(r, g)
    \/ \E r \in Obj, g \in FlagsArgs : CallAdd(r, g)
    \/ \E r \in Obj, v \in EnumVals : CallHas(r, v)
    \/ \E r \in Obj, g \in FlagsArgs : CallHasAll(r, g)
    \/ \E r \in Obj, g \in FlagsArgs : CallHasAny(r, g)
    \/ \E r \in Obj : CallHasAnySet(r)
    \/ \E r \in Obj, v \in EnumVals : CallAndEnum(r, v)
    \/ \E r \in Obj, g \in FlagsArgs : CallAndFlags(r, g)
    \/ \E r \in Obj, g \in FlagsArgs : CallResetAssign(r, g)
    \/ \E r \in Obj, g \in FlagsArgs : CallUnion(r, g)
    \/ \E r \in Obj, g \in FlagsArgs : CallUnionAssign(r, g)
    \/ \E r \in Obj : CallToRaw(r)
    \/ \E r \in Obj, s \in Obj : CallSwap(r, s)
    \/ \E lhs \in Obj, rhs \in Obj : CallFreeSwap(lhs, rhs)
    \/ \E r \in Obj, s \in Obj : CallEqual(r, s)
    \/ \E r \in Obj, s \in Obj : CallNotEqual(r, s)

Spec == Init /\ [][Next]_vars

-----------------------------------------------------------------------------
(* Vocabulary of the properties: a raw value as the set of its bit        *)
(* positions, a list as the set of its elements.                          *)

Bits(x) == {i \in 0 .. (Width - 1) : (x \div 2^i) % 2 = 1}

Range(S) == {S[i] : i \in DOMAIN S}

\* Calls that change the receiver only.
Mutators == {"Clear", "Remove", "Add", "&=", "|="}

-----------------------------------------------------------------------------

\* C1: the Flag Set constructed from a collection S of enumerators has the
\* bitwise OR of the elements as raw value, so Has(v) holds exactly for the
\* enumerators v in S; any collection with the same elements (a permutation,
\* a repetition) constructs the same Flag Set; the empty collection gives 0.
C1_ConstructFromCollection ==
    op = "EnumFlags(list)" =>
        /\ Bits(flags_[rcv]) = UNION {Bits(arg[i]) : i \in DOMAIN arg}
        /\ \A v \in Opt : Has(flags_[rcv], v) <=> v \in Range(arg)
        /\ \A T \in Lists : Range(T) = Range(arg) => EnumFlagsList(T) = flags_[rcv]
        /\ (arg = <<>> => flags_[rcv] = 0)

C1_Witness ==
    /\ op = "EnumFlags(list)"
    /\ Len(arg) = 2
    /\ arg[1] # arg[2]
    /\ Bits(flags_[rcv]) = Bits(arg[1]) \cup Bits(arg[2])

\* C2: for every value v an Opt can carry (0 and multi-bit values included),
\* Has(v) and the query operator F & v return true iff all of v's bits are
\* set in F, i.e. agree with HasAll(FlagSet(v)).
C2_HasIffAllBitsSet ==
    op \in {"Has", "&enum"} =>
        /\ ret = Bool(Bits(arg) \subseteq Bits(flags_[rcv]))
        /\ ret = Bool(HasAll(flags_[rcv], EnumFlagsEnum(arg)))

\* C3: HasAll(G) and F & G return true iff every bit of G is set in F;
\* HasAny(G) returns true iff some bit of G is set in F; HasAll(empty) is
\* true, HasAny(empty) is false, and for non-empty G HasAll(G) implies
\* HasAny(G).
C3_HasAllHasAny ==
    /\ op \in {"HasAll", "&flags"} =>
           ret = Bool(Bits(arg) \subseteq Bits(flags_[rcv]))
    /\ op = "HasAny" =>
           ret = Bool(Bits(arg) \cap Bits(flags_[rcv]) # {})
    /\ (op = "HasAll" /\ arg = 0) => ret = Bool(TRUE)
    /\ (op = "HasAny" /\ arg = 0) => ret = Bool(FALSE)
    /\ (op = "HasAll" /\ arg # 0 /\ ret = Bool(TRUE)) => HasAny(flags_[rcv], arg)

C3_Witness ==
    /\ op = "HasAll"
    /\ ret = Bool(FALSE)
    /\ HasAny(flags_[rcv], arg)

\* C4: Add(G) sets raw(F) to old | raw(G) and Remove(G) sets it to
\* old & ~raw(G); both leave the bits outside G alone and return the
\* receiver.  For an enumerator v: after Add(v) Has(v) is true, after
\* Remove(v) Has(v) is false, and Remove(v) of an unset v changes nothing.
C4_AddRemove ==
    /\ op = "Add" =>
           /\ Bits(flags_[rcv]) = Bits(pre[rcv]) \cup Bits(arg)
           /\ ret = Ref(rcv)
           /\ (arg \in Opt => Has(flags_[rcv], arg))
    /\ op = "Remove" =>
           /\ Bits(flags_[rcv]) = Bits(pre[rcv]) \ Bits(arg)
           /\ ret = Ref(rcv)
           /\ (arg \in Opt => ~Has(flags_[rcv], arg))
           /\ ((arg \in Opt /\ ~Has(pre[rcv], arg)) => flags_[rcv] = pre[rcv])
    /\ op \in {"Add", "Remove"} =>
           Bits(flags_[rcv]) \ Bits(arg) = Bits(pre[rcv]) \ Bits(arg)

C4_Witness ==
    /\ op = "Remove"
    /\ arg \in Opt
    /\ Has(pre[rcv], arg)
    /\ ~Has(flags_[rcv], arg)
    /\ flags_[rcv] # 0

\* C5: F &= G replaces raw(F) by raw(G): every flag of the old F that is
\* not in G is cleared and every flag of G is set (neither a union nor an
\* intersection); F |= G has exactly the effect of F.Add(G), old | raw(G).
C5_ResetAssignUnionAssign ==
    /\ op = "&=" =>
           /\ flags_[rcv] = arg
           /\ Bits(flags_[rcv]) = Bits(arg)
           /\ ret = Ref(rcv)
    /\ op = "|=" =>
           /\ flags_[rcv] = Add(pre[rcv], arg)
           /\ Bits(flags_[rcv]) = Bits(pre[rcv]) \cup Bits(arg)
           /\ ret = Ref(rcv)

C5_Witness ==
    /\ op = "&="
    /\ Cardinality(Bits(pre[rcv])) = 2
    /\ arg # 0
    /\ Bits(pre[rcv]) \cap Bits(arg) = {}
    /\ flags_[rcv] = arg

\* C6: F | G leaves the receiver's raw value unchanged and returns a new
\* Flag Set with raw value raw(F) | raw(G); for an enumerator v,
\* (F | v).Has(v) is true and F.Has(v) is what it was before; a later
\* mutation of the result does not affect F.
C6_UnionReturn ==
    op = "|" =>
        /\ flags_[rcv] = pre[rcv]
        /\ Bits(ret.val) = Bits(pre[rcv]) \cup Bits(arg)
        /\ flags_[Other(rcv)] = ret.val
        /\ (arg \in Opt =>
               /\ Has(ret.val, arg)
               /\ Has(flags_[rcv], arg) <=> Has(pre[rcv], arg))

C6_ResultNotAliased ==
    (op = "|" /\ op' \in Mutators /\ rcv' = Other(rcv)) => flags_'[rcv] = flags_[rcv]

\* C6, whole: the return value and receiver are as stated after every F | G,
\* and no mutator called on the result next changes the receiver.
C6_UnionPure == []C6_UnionReturn /\ [][C6_ResultNotAliased]_vars

C6_Witness ==
    /\ op = "|"
    /\ arg \in Opt
    /\ ~Has(flags_[rcv], arg)
    /\ Has(flags_[Other(rcv)], arg)
    /\ flags_[rcv] # 0

\* C7: a default-constructed Flag Set, and any Flag Set right after
\* Clear(), has raw value 0: HasAny() is false and Has(v) is false for
\* every v; HasAny() is true iff the raw value is non-zero; Clear() returns
\* the receiver.
C7_EmptyAfterClear ==
    /\ op \in {"EnumFlags()", "Clear"} =>
           /\ flags_[rcv] = 0
           /\ ~HasAnySet(flags_[rcv])
           /\ \A v \in EnumVals : ~Has(flags_[rcv], v)
    /\ op = "Clear" => ret = Ref(rcv)
    /\ op = "HasAny()" => ret = Bool(Bits(flags_[rcv]) # {})

C7_Witness ==
    /\ op = "Clear"
    /\ pre[rcv] # 0
    /\ flags_[rcv] = 0

\* C8: swapping F1 and F2 (member or free swap) exchanges their raw values;
\* swapping the same two again restores both; and no aliasing remains: a
\* later Add, Remove, Clear, &= or |= on one leaves the other unchanged.
C8_SwapExchanges ==
    op = "swap" =>
        /\ flags_[rcv] = pre[arg]
        /\ flags_[arg] = pre[rcv]

C8_SwapTwiceRestores ==
    (op = "swap" /\ op' = "swap" /\ {rcv', arg'} = {rcv, arg}) => flags_' = pre

C8_NoAliasAfterSwap ==
    (op = "swap" /\ op' \in Mutators) =>
        flags_'[Other(rcv')] = flags_[Other(rcv')]

\* C8, whole: every swap exchanges the two raw values, a second swap of the
\* same two restores them, and a mutator called next changes its receiver only.
C8_Swap ==
    /\ []C8_SwapExchanges
    /\ [][C8_SwapTwiceRestores /\ C8_NoAliasAfterSwap]_vars

C8_Witness ==
    /\ op = "swap"
    /\ rcv # arg
    /\ pre[1] # pre[2]
    /\ flags_[1] = pre[2]
    /\ flags_[2] = pre[1]

\* C9: F == G iff raw(F) = raw(G) (the same flags), F != G is its negation;
\* Flag Sets constructed from collections compare equal exactly when the
\* collections have the same elements, whatever the order or repetitions.
C9_Equality ==
    /\ op = "==" => ret = Bool(Bits(pre[rcv]) = Bits(pre[arg]))
    /\ op = "!=" => ret = Bool(Bits(pre[rcv]) # Bits(pre[arg]))
    /\ op = "EnumFlags(list)" =>
           \A T \in Lists :
               Equal(EnumFlagsList(T), flags_[rcv]) <=> Range(T) = Range(arg)

C9_Witness ==
    /\ op = "=="
    /\ ret = Bool(FALSE)
    /\ HasAll(flags_[rcv], flags_[arg])
    /\ flags_[arg] # 0

\* C10: for every shift k below the bit-width, CreateFlag(k) is exactly
\* 2^k: non-zero, one bit set, and disjoint from CreateFlag(j) for j # k.
C10_CreateFlag ==
    op = "CreateFlag" =>
        /\ ret = Val(2^arg)
        /\ ret.val # 0
        /\ Bits(ret.val) = {arg}
        /\ \A j \in 0 .. (Width - 1) :
               j # arg => BitAnd(ret.val, CreateFlag(j)) = 0

C10_Witness ==
    /\ op = "CreateFlag"
    /\ arg = Width - 1
    /\ ret = Val(2^(Width - 1))

====
